---- MODULE Spec2Model ----
(***************************************************************************)
(* The trading loop of src/5.py: main() iterates the configured symbols,   *)
(* process_symbol() reads balance, price and purchase record, may submit a *)
(* market sell, then computes the signals and may submit a market buy.     *)
(*                                                                         *)
(* Numbers.  Prices and quote amounts are integers counted in price        *)
(* sub-units: QuoteUnit sub-units make one unit of quote currency (USDT)   *)
(* and PriceQuantum sub-units make one step of the 8-decimal text the      *)
(* purchase record is stored in.  Balances and filled quantities are whole *)
(* lots of the base asset.  A float expression of the source is its exact  *)
(* value (a fraction) together with the sign of its binary rounding error: *)
(* the error is too small to move a value across a different one, so it    *)
(* decides a comparison only when the exact values are equal.              *)
(***************************************************************************)
EXTENDS Integers, Sequences, FiniteSets, TLC

\* The configuration modelled lists two symbols: len(config["symbols"]).
NumSymbols == 2

\* ------------------------------------------------------------- bounds
MaxPrice == 5
MaxBalance == 1
QuoteUnit == 3
PriceQuantum == 2

\* ---------------------------------------------------------- sentinels
\* Python None (no purchase record, value not obtained in this run).
None == -1
\* float NaN (indicator undefined).
NaN == -2

\* The dust threshold of lines 140 and 166, in units of quote currency.
DustThreshold == 1

Balances == 0..MaxBalance
Roundings == <<"floor", "round", "none">>
\* config["profit_target"] and config["trailing_stop_loss_percentage"].
ProfitTargets == {-50, 25, 50}
TrailingStops == {10}
RsiValues == {NaN, 23, 27}

\* The calls of process_symbol that can raise, in program order.
EarlyFails == {"balance", "price", "read"}
ExitFails == {"sell", "clear", "klines", "signal"}
EntryFails == {"buyprice", "buy", "write"}
Fails == EarlyFails \cup ExitFails \cup EntryFails

\* probe records one call of a function made outside the trading loop: its
\* name, its arguments, its result and the store as the call found it.
VARIABLES pc, idx, symbols, PROFIT_TARGET, TRAILING_STOP, acct, store, last, processed, probe

vars == <<pc, idx, symbols, PROFIT_TARGET, TRAILING_STOP, acct, store, last, processed, probe>>

\* ------------------------------------------------------ float helpers
\* Truthiness of an Optional[float]: None and 0.0 are falsy.
Truthy(x) == x # None /\ x # 0

\* a < b and a > b on floats: any comparison with NaN is False.
Lt(a, b) == a # NaN /\ b # NaN /\ a < b

Gt(a, b) == a # NaN /\ b # NaN /\ a > b

\* Signs of the rounding errors (computed minus exact) of the three float
\* expressions a run compares: profit_percentage, target_price, trailing_price.
FloatError(profit, target, trailing) == [profit |-> profit, target |-> target, trailing |-> trailing]

Exact == FloatError(0, 0, 0)

\* Exactly computed, profit rounded down, or profit rounded down and the
\* target price rounded up; the trailing price rounds either way.
FloatErrors ==
  {Exact, FloatError(-1, 0, 0), FloatError(-1, 1, 0), FloatError(0, 0, 1), FloatError(0, 0, -1)}

\* A float: the fraction num/den (den > 0) and the sign err of its rounding error.
Float(num, den, err) == [num |-> num, den |-> den, err |-> err]

\* frac >= x, frac <= x and frac > x for a float frac and an exactly known x.
FracGe(frac, x) ==
  \/ frac.num > x * frac.den
  \/ frac.num = x * frac.den /\ frac.err >= 0

FracLe(frac, x) ==
  \/ frac.num < x * frac.den
  \/ frac.num = x * frac.den /\ frac.err <= 0

FracGt(frac, x) ==
  \/ frac.num > x * frac.den
  \/ frac.num = x * frac.den /\ frac.err > 0

\* Nearest integer to num/den (num >= 0, den > 0), ties to even: round().
RoundHalfEven(num, den) ==
  LET q == num \div den
      r == num % den
  IN  IF 2 * r < den THEN q
      ELSE IF 2 * r > den THEN q + 1
      ELSE IF q % 2 = 0 THEN q ELSE q + 1

\* f"{price:.8f}" read back by float(): the price on the 8-decimal grid.
Format8(price) == PriceQuantum * RoundHalfEven(price, PriceQuantum)

\* Prices the exchange quotes: positive, and never so far below the store's
\* resolution that the stored text would read 0.00000000.
Prices == {p \in 1..MaxPrice : Format8(p) > 0}

MinPrice == CHOOSE p \in Prices : \A q \in Prices : p <= q

\* <<upper_band, lower_band>> as calculate_bollinger_bands returns them.
BandPairs == {<<NaN, NaN>>, <<MaxPrice - 1, MinPrice + 1>>}

\* What a purchase-record file can hold.
StoredPrices == {Format8(p) : p \in Prices}

\* ---------------------------------------------------- position store
write_purchase_price(st, symbol, price) == [st EXCEPT ![symbol] = Format8(price)]

read_purchase_price(st, symbol) == st[symbol]

clear_purchase_price(st, symbol) == [st EXCEPT ![symbol] = None]

\* ---------------------------------------------------------- policies
\* Variant: a price on the upper band already counts as above it.
dynamic_rsi_threshold_UpperInclusive(current_price, upper_band, lower_band) ==
  IF Gt(current_price, upper_band) \/ current_price = upper_band THEN 30
  ELSE IF Lt(current_price, lower_band) THEN 24
  ELSE 27

dynamic_rsi_threshold(current_price, upper_band, lower_band) ==
  IF Gt(current_price, upper_band) THEN 30
  ELSE IF Lt(current_price, lower_band) THEN 24
  ELSE 27

\* purchase_price * (1 + profit_target / 100); exact when profit_target is 0.
target_price(purchase_price, profit_target, fl) ==
  Float(purchase_price * (100 + profit_target), 100,
        IF profit_target = 0 THEN 0 ELSE fl.target)

\* current_price * (1 - trailing_stop / 100); exact when trailing_stop is 0.
trailing_price(current_price, trailing_stop, fl) ==
  Float(current_price * (100 - trailing_stop), 100,
        IF trailing_stop = 0 THEN 0 ELSE fl.trailing)

\* Variant: the trailing price alone decides.
should_sell_with_trailing_stop_NoTargetCheck(purchase_price, current_price, profit_target, trailing_stop, fl) ==
  FracGt(trailing_price(current_price, trailing_stop, fl), purchase_price)

\* Variant: the price has to be strictly above the target price.
should_sell_with_trailing_stop_AboveTargetOnly(purchase_price, current_price, profit_target, trailing_stop, fl) ==
  /\ ~FracGe(target_price(purchase_price, profit_target, fl), current_price)
  /\ FracGt(trailing_price(current_price, trailing_stop, fl), purchase_price)

\* current_price >= target_price and trailing_price > purchase_price
should_sell_with_trailing_stop(purchase_price, current_price, profit_target, trailing_stop, fl) ==
  /\ FracLe(target_price(purchase_price, profit_target, fl), current_price)
  /\ FracGt(trailing_price(current_price, trailing_stop, fl), purchase_price)

\* ((current_price - purchase_price) / purchase_price) * 100 if purchase_price else 0;
\* exact when the two prices are equal.
profit_percentage(purchase_price, current_price, fl) ==
  IF Truthy(purchase_price)
  THEN Float((current_price - purchase_price) * 100, purchase_price,
             IF current_price = purchase_price THEN 0 ELSE fl.profit)
  ELSE Float(0, 1, 0)

\* Variant: the dust check only asks for a nonzero balance.
WorthMoreThanDust_AnyBalance(balance_in_usd) == balance_in_usd > 0

\* balance_in_usd > 1
WorthMoreThanDust(balance_in_usd) == balance_in_usd > DustThreshold * QuoteUnit

\* Variant: the `purchase_price and` guard is left out.
TargetReached_NoRecordGuard(purchase_price, profit, profit_target) ==
  FracGe(profit, profit_target)

\* Variant: any non-negative profit counts as the target.
TargetReached_BreakEven(purchase_price, profit, profit_target) ==
  Truthy(purchase_price) /\ FracGe(profit, 0)

\* purchase_price and profit_percentage >= PROFIT_TARGET
TargetReached(purchase_price, profit, profit_target) ==
  Truthy(purchase_price) /\ FracGe(profit, profit_target)

\* Variant: the balance is not looked at before buying.
BuyCondition_NoBalanceCheck(rsi, rsi_threshold, balance_in_usd) == Lt(rsi, rsi_threshold)

\* Variant: rsi <= rsi_threshold.
BuyCondition_RsiAtThreshold(rsi, rsi_threshold, balance_in_usd) ==
  /\ rsi # NaN
  /\ rsi <= rsi_threshold
  /\ balance_in_usd < DustThreshold * QuoteUnit

\* rsi < rsi_threshold and balance_in_usd < 1
BuyCondition(rsi, rsi_threshold, balance_in_usd) ==
  Lt(rsi, rsi_threshold) /\ balance_in_usd < DustThreshold * QuoteUnit

\* ------------------------------------------------------------ orders
\* An exception leaves the try block: nothing after the raising call runs.
Raise(ctx, what) == [ctx EXCEPT !.error = what]

Order(side, symbol, quantity, why, accepted) ==
  [side |-> side, symbol |-> symbol, quantity |-> quantity, why |-> why, accepted |-> accepted]

\* The exchange fills a buy only for a positive whole number of lots, and
\* only while the account stays within the modelled range of balances.
ExchangeAccepts(quantity, balance) ==
  /\ quantity.num % quantity.den = 0
  /\ quantity.num \div quantity.den > 0
  /\ balance + quantity.num \div quantity.den <= MaxBalance

\* get_account()['balances']: the free balance of the symbol's base asset.
check_if_symbol_in_balance(accounts, symbol) == accounts[symbol]

place_sell_order(ctx, symbol, quantity, why, fail) ==
  IF fail = "sell"
  THEN Raise([ctx EXCEPT !.orders = Append(@, Order("SELL", symbol, [num |-> quantity, den |-> 1], why, FALSE))], "sell")
  ELSE [ctx EXCEPT !.orders = Append(@, Order("SELL", symbol, [num |-> quantity, den |-> 1], why, TRUE)),
                   !.acct[symbol] = @ - quantity]

\* int(quantity), round(quantity) or the quotient itself.
RoundQuantity(amount_usdt, price, rounding) ==
  IF rounding = "floor" THEN [num |-> amount_usdt \div price, den |-> 1]
  ELSE IF rounding = "round" THEN [num |-> RoundHalfEven(amount_usdt, price), den |-> 1]
  ELSE [num |-> amount_usdt, den |-> price]

\* A failing write_purchase_price fails at open() and leaves the file as it was.
place_buy_order(ctx, symbol, amount_usdt, rounding, in) ==
  IF in.fail = "buyprice" THEN Raise(ctx, "buyprice")
  ELSE
    LET price == in.buy_price
        quantity == RoundQuantity(amount_usdt, price, rounding)
        accepted == in.fail # "buy" /\ ExchangeAccepts(quantity, ctx.acct[symbol])
        sent == [ctx EXCEPT !.orders = Append(@, Order("BUY", symbol, quantity, "rsi", accepted))]
    IN  IF ~accepted THEN Raise(sent, "buy")
        ELSE
          LET filled == [sent EXCEPT !.acct[symbol] = @ + quantity.num \div quantity.den]
          IN  IF in.fail = "write" THEN Raise(filled, "write")
              ELSE [filled EXCEPT !.store = write_purchase_price(@, symbol, price),
                                  !.ops = Append(@, "write")]

\* Variant: the record is cleared before the sell order is submitted.
SellAndClear_ClearFirst(ctx, symbol, balance, why, fail) ==
  IF fail = "clear" THEN Raise(ctx, "clear")
  ELSE place_sell_order([ctx EXCEPT !.store = clear_purchase_price(@, symbol),
                                    !.ops = Append(@, "clear")],
                        symbol, balance, why, fail)

\* place_sell_order(symbol, balance) followed by clear_purchase_price(symbol).
SellAndClear(ctx, symbol, balance, why, fail) ==
  LET sold == place_sell_order(ctx, symbol, balance, why, fail)
  IN  IF sold.error # "none" THEN sold
      ELSE IF fail = "clear" THEN Raise(sold, "clear")
      ELSE [sold EXCEPT !.store = clear_purchase_price(@, symbol),
                        !.ops = Append(@, "clear")]

\* "Check balance and profit conditions": the if/else of lines 140-155.
ExitCheck(ctx, symbol, balance, current_price, purchase_price, in) ==
  LET balance_in_usd == balance * current_price
      profit == profit_percentage(purchase_price, current_price, in.fl)
  IN  IF WorthMoreThanDust(balance_in_usd)
      THEN IF TargetReached(purchase_price, profit, PROFIT_TARGET)
           THEN SellAndClear(ctx, symbol, balance, "target", in.fail)
           ELSE IF /\ Truthy(purchase_price)
                   /\ should_sell_with_trailing_stop(purchase_price, current_price,
                                                     PROFIT_TARGET, TRAILING_STOP, in.fl)
           THEN SellAndClear(ctx, symbol, balance, "trailing", in.fail)
           ELSE ctx
      ELSE ctx

\* "Check buy conditions": lines 165-168.
EntryCheck(ctx, symbol_data, rsi, rsi_threshold, balance_in_usd, in) ==
  IF BuyCondition(rsi, rsi_threshold, balance_in_usd)
  THEN place_buy_order(ctx, symbol_data.symbol, symbol_data.amount_usdt, symbol_data.rounding, in)
  ELSE ctx

\* What one run of process_symbol saw and did; record_before is the purchase
\* record as the run found it, whether or not the run got to read it.
NoRun ==
  [symbol |-> None, record_before |-> None, balance |-> None, current_price |-> None,
   purchase_price |-> None, bands |-> <<None, None>>, rsi |-> None, rsi_threshold |-> None,
   orders |-> <<>>, ops |-> <<>>, error |-> "none"]

Outcome(ctx, seen) ==
  [acct |-> ctx.acct, store |-> ctx.store,
   run |-> [seen EXCEPT !.orders = ctx.orders, !.ops = ctx.ops, !.error = ctx.error]]

process_symbol(symbol_data, accounts, st, in) ==
  LET symbol == symbol_data.symbol
      ctx0 == [acct |-> accounts, store |-> st, orders |-> <<>>, ops |-> <<>>, error |-> "none"]
      seen0 == [NoRun EXCEPT !.symbol = symbol, !.record_before = st[symbol]]
  IN
  IF in.fail = "balance" THEN Outcome(Raise(ctx0, "balance"), seen0) ELSE
  LET balance == check_if_symbol_in_balance(accounts, symbol)
      seen1 == [seen0 EXCEPT !.balance = balance]
  IN
  IF in.fail = "price" THEN Outcome(Raise(ctx0, "price"), seen1) ELSE
  LET current_price == in.current_price
      seen2 == [seen1 EXCEPT !.current_price = current_price]
  IN
  IF in.fail = "read" THEN Outcome(Raise(ctx0, "read"), seen2) ELSE
  LET purchase_price == read_purchase_price(st, symbol)
      balance_in_usd == balance * current_price
      seen3 == [seen2 EXCEPT !.purchase_price = purchase_price]
      ctx1 == ExitCheck(ctx0, symbol, balance, current_price, purchase_price, in)
  IN
  IF ctx1.error # "none" THEN Outcome(ctx1, seen3) ELSE
  IF in.fail \in {"klines", "signal"} THEN Outcome(Raise(ctx1, in.fail), seen3) ELSE
  LET rsi_threshold == dynamic_rsi_threshold(current_price, in.bands[1], in.bands[2])
      rsi == in.rsi
      seen4 == [seen3 EXCEPT !.bands = in.bands, !.rsi = rsi, !.rsi_threshold = rsi_threshold]
  IN  Outcome(EntryCheck(ctx1, symbol_data, rsi, rsi_threshold, balance_in_usd, in), seen4)

\* Variant: the handler catches the exchange client's errors only.
Caught_ExchangeErrorsOnly(error) == error \in Fails \ {"read", "clear", "write", "signal"}

\* `except Exception`: whatever a call of the try block raises is caught.
Caught(error) == error \in Fails

\* ------------------------------------------------------------ inputs
\* What the outside world hands one run: which call raises (if reached), the
\* ticker price, the price place_buy_order fetches, RSI and Bollinger bands.
\* fl holds the rounding of the run's float expressions.  Values a run cannot
\* read before its failing call are fixed, and so are roundings in the runs
\* that get to buy (a run that buys has compared no profit).
Input(fail, current_price, buy_price, rsi, bands, fl) ==
  [fail |-> fail, current_price |-> current_price, buy_price |-> buy_price, rsi |-> rsi,
   bands |-> bands, fl |-> fl]

Inputs ==
  {Input(f, MinPrice, MinPrice, NaN, <<NaN, NaN>>, Exact) : f \in {"balance", "price"}}
  \cup {Input("read", c, MinPrice, NaN, <<NaN, NaN>>, Exact) : c \in Prices}
  \cup {Input(f, c, MinPrice, NaN, <<NaN, NaN>>, e) : f \in ExitFails, c \in Prices, e \in FloatErrors}
  \cup {Input("none", c, MinPrice, r, <<NaN, NaN>>, e) : c \in Prices, r \in RsiValues, e \in FloatErrors}
  \cup {Input("buyprice", c, MinPrice, r, b, Exact) : c \in Prices, r \in RsiValues, b \in BandPairs}
  \cup {Input(f, c, c, 23, b, Exact) : f \in {"buy", "write"}, c \in Prices, b \in BandPairs}
  \cup {Input("none", c, p, r, b, Exact) : c \in Prices, p \in Prices, r \in RsiValues, b \in BandPairs}

\* ------------------------------------------------------ configuration
\* config["symbols"]: each entry with its rounding and the amount to spend.
SymbolData(i) ==
  [symbol |-> i,
   rounding |-> Roundings[((i - 1) % 3) + 1],
   amount_usdt |-> IF i % 2 = 1 THEN QuoteUnit + 1 ELSE QuoteUnit - 1]

Config == [i \in 1..NumSymbols |-> SymbolData(i)]

\* ----------------------------------------------------------- actions
\* No function has been called outside the loop.
NoCall == <<"none", <<>>>>

NoProbe == [fn |-> "none", args |-> <<>>, result |-> None, before |-> <<>>, after |-> NoCall]

Init ==
  /\ pc = "for"
  /\ idx = 1
  /\ symbols = Config
  /\ PROFIT_TARGET \in ProfitTargets
  /\ TRAILING_STOP \in TrailingStops
  /\ acct \in [1..NumSymbols -> Balances]
  /\ store \in [1..NumSymbols -> StoredPrices \cup {None}]
  /\ last = NoRun
  /\ processed = <<>>
  /\ probe = NoProbe

\* One iteration of `for symbol_data in symbols`: process_symbol(symbol_data).
ProcessSymbol ==
  /\ pc = "for"
  /\ idx <= Len(symbols)
  /\ \E in \in Inputs :
       \E r \in {process_symbol(symbols[idx], acct, store, in)} :
           /\ acct' = r.acct
           /\ store' = r.store
           /\ last' = r.run
           /\ processed' = Append(processed, [symbol |-> symbols[idx].symbol,
                                              error |-> r.run.error # "none"])
           /\ IF r.run.error = "none" \/ Caught(r.run.error)
              THEN pc' = "for" /\ idx' = idx + 1
              ELSE pc' = "aborted" /\ idx' = idx
  /\ UNCHANGED <<symbols, PROFIT_TARGET, TRAILING_STOP, probe>>

\* Variant: the banner and the sleep sit inside the for loop, after each symbol.
EndCycle_AfterEachSymbol ==
  /\ pc = "for"
  /\ idx > 1
  /\ pc' = "sleep"
  /\ UNCHANGED <<idx, symbols, PROFIT_TARGET, TRAILING_STOP, acct, store, last, processed, probe>>

\* The for loop is exhausted: print the banner and enter time.sleep.
EndCycle ==
  /\ pc = "for"
  /\ idx > Len(symbols)
  /\ pc' = "sleep"
  /\ UNCHANGED <<idx, symbols, PROFIT_TARGET, TRAILING_STOP, acct, store, last, processed, probe>>

\* time.sleep returns and the next pass of `while True` starts.  While the
\* loop slept the account may have changed outside the program (deposit,
\* withdrawal, manual trade); a run reads only its own symbol's balance, once,
\* so a change at any other moment is seen the same way.
Wake ==
  /\ pc = "sleep"
  /\ pc' = "for"
  /\ idx' = 1
  /\ processed' = <<>>
  /\ last' = NoRun
  /\ acct' \in [1..NumSymbols -> Balances]
  /\ UNCHANGED <<symbols, PROFIT_TARGET, TRAILING_STOP, store, probe>>

Next == ProcessSymbol \/ EndCycle \/ Wake

Spec == Init /\ [][Next]_vars

\* ------------------------------------------------------ closed account
\* The program alone on a fresh account: no base asset, no purchase record,
\* and nothing but the program's own filled orders changes a balance.  Prices
\* and indicators still move freely from run to run.
ClosedInit ==
  /\ pc = "for"
  /\ idx = 1
  /\ symbols = Config
  /\ PROFIT_TARGET \in ProfitTargets
  /\ TRAILING_STOP \in TrailingStops
  /\ acct = [i \in 1..NumSymbols |-> 0]
  /\ store = [i \in 1..NumSymbols |-> None]
  /\ last = NoRun
  /\ processed = <<>>
  /\ probe = NoProbe

\* time.sleep returns with the account as the last cycle left it.
Resume ==
  /\ pc = "sleep"
  /\ pc' = "for"
  /\ idx' = 1
  /\ processed' = <<>>
  /\ last' = NoRun
  /\ UNCHANGED <<symbols, PROFIT_TARGET, TRAILING_STOP, acct, store, probe>>

ClosedNext == ProcessSymbol \/ EndCycle \/ Resume

ClosedSpec == ClosedInit /\ [][ClosedNext]_vars

\* ------------------------------------------------ calls of functions
\* The helper functions called on their own, on a store, an account and a
\* configuration drawn by the initial state.  The store functions are called
\* one after another in any order; any other function is called once, as the
\* only call of a behaviour.
FnInit ==
  /\ pc = "call"
  /\ idx = 1
  /\ symbols = Config
  /\ PROFIT_TARGET \in ProfitTargets
  /\ TRAILING_STOP \in TrailingStops
  /\ acct \in [1..NumSymbols -> Balances]
  /\ store \in [1..NumSymbols -> StoredPrices \cup {None}]
  /\ last = NoRun
  /\ processed = <<>>
  /\ probe = NoProbe

StoreFns == {"write_purchase_price", "read_purchase_price", "clear_purchase_price"}

\* A call of a function that does not touch the store.
Probe(fn, args, result) ==
  [fn |-> fn, args |-> args, result |-> result, before |-> <<>>, after |-> NoCall]

\* A call of a store function: the store as the call found it and the store
\* call made just before it, if any.
StoreProbe(fn, args, result) ==
  [fn |-> fn, args |-> args, result |-> result, before |-> store,
   after |-> IF probe.fn \in StoreFns THEN <<probe.fn, probe.args>> ELSE NoCall]

\* Band values: any price, or NaN for a history shorter than the window.
BandValues == Prices \cup {NaN}

Call_dynamic_rsi_threshold ==
  /\ pc = "call"
  /\ probe = NoProbe
  /\ \E current_price \in Prices, upper_band \in BandValues, lower_band \in BandValues :
       probe' = Probe("dynamic_rsi_threshold", <<current_price, upper_band, lower_band>>,
                      dynamic_rsi_threshold(current_price, upper_band, lower_band))
  /\ pc' = "done"
  /\ UNCHANGED <<idx, symbols, PROFIT_TARGET, TRAILING_STOP, acct, store, last, processed>>

\* The model's prices and percentages, and the values of the worked example
\* purchase_price=100, current_price=102, profit_target=2, trailing_stop=1;
\* a trailing stop of 0 or 50 puts the trailing price on the purchase price.
ProbePrices == Prices \cup {100, 102}

ProbeTargets == ProfitTargets \cup {0, 2}

ProbeStops == TrailingStops \cup {0, 1, 50}

Call_should_sell_with_trailing_stop ==
  /\ pc = "call"
  /\ probe = NoProbe
  /\ \E purchase_price \in ProbePrices, current_price \in ProbePrices,
        profit_target \in ProbeTargets, trailing_stop \in ProbeStops, fl \in FloatErrors :
       probe' = Probe("should_sell_with_trailing_stop",
                      <<purchase_price, current_price, profit_target, trailing_stop, fl>>,
                      should_sell_with_trailing_stop(purchase_price, current_price,
                                                     profit_target, trailing_stop, fl))
  /\ pc' = "done"
  /\ UNCHANGED <<idx, symbols, PROFIT_TARGET, TRAILING_STOP, acct, store, last, processed>>

Call_write_purchase_price ==
  /\ pc = "call"
  /\ \E symbol \in 1..NumSymbols, price \in Prices :
       /\ store' = write_purchase_price(store, symbol, price)
       /\ probe' = StoreProbe("write_purchase_price", <<symbol, price>>, None)
  /\ UNCHANGED <<pc, idx, symbols, PROFIT_TARGET, TRAILING_STOP, acct, last, processed>>

Call_read_purchase_price ==
  /\ pc = "call"
  /\ \E symbol \in 1..NumSymbols :
       probe' = StoreProbe("read_purchase_price", <<symbol>>, read_purchase_price(store, symbol))
  /\ UNCHANGED <<pc, idx, symbols, PROFIT_TARGET, TRAILING_STOP, acct, store, last, processed>>

Call_clear_purchase_price ==
  /\ pc = "call"
  /\ \E symbol \in 1..NumSymbols :
       /\ store' = clear_purchase_price(store, symbol)
       /\ probe' = StoreProbe("clear_purchase_price", <<symbol>>, None)
  /\ UNCHANGED <<pc, idx, symbols, PROFIT_TARGET, TRAILING_STOP, acct, last, processed>>

\* The Action a run decided on: kind, symbol and quantity of its order.
Action(run) ==
  IF run.orders = <<>>
  THEN <<"NoAction", run.symbol, [num |-> 0, den |-> 1]>>
  ELSE <<run.orders[1].side, run.orders[1].symbol, run.orders[1].quantity>>

\* The inputs of runs in which no call fails.
Decisions == {in \in Inputs : in.fail = "none"}

\* Two inputs that carry the same snapshot: the same ticker price at the
\* start of the run and the same price history (RSI, bands), evaluated with
\* the same float arithmetic.
SameSnapshot(in1, in2) ==
  /\ in1.current_price = in2.current_price
  /\ in1.rsi = in2.rsi
  /\ in1.bands = in2.bands
  /\ in1.fl = in2.fl

\* process_symbol evaluated twice on the same account and store, neither
\* evaluation changing them, on inputs that carry the same snapshot.
Call_process_symbol_twice ==
  /\ pc = "call"
  /\ probe = NoProbe
  /\ \E i \in 1..NumSymbols, in1 \in Decisions :
       \E in2 \in {in \in Decisions : SameSnapshot(in1, in)} :
         probe' = Probe("process_symbol",
                        <<i, in1.current_price, in1.buy_price, in2.buy_price>>,
                        <<Action(process_symbol(symbols[i], acct, store, in1).run),
                          Action(process_symbol(symbols[i], acct, store, in2).run)>>)
  /\ pc' = "done"
  /\ UNCHANGED <<idx, symbols, PROFIT_TARGET, TRAILING_STOP, acct, store, last, processed>>

FnNext ==
  \/ Call_dynamic_rsi_threshold
  \/ Call_should_sell_with_trailing_stop
  \/ Call_write_purchase_price
  \/ Call_read_purchase_price
  \/ Call_clear_purchase_price
  \/ Call_process_symbol_twice

FnSpec == FnInit /\ [][FnNext]_vars

\* ------------------------------------------------- reading the last run
Ran == last.symbol # None

\* The run got past its three reads (balance, price, purchase record).
ReadAll == Ran /\ last.error \notin EarlyFails

Submitted(side) == \E i \in DOMAIN last.orders : last.orders[i].side = side

Executed(side) ==
  \E i \in DOMAIN last.orders : last.orders[i].side = side /\ last.orders[i].accepted

Did(op) == \E i \in DOMAIN last.ops : last.ops[i] = op

\* balance x current price of the last run, and the dust threshold, in sub-units.
ValueHeld == last.balance * last.current_price

Dust == DustThreshold * QuoteUnit

\* ---------------------------------------------------------------- C1
\* C1: one run of process_symbol submits at most one order: never a market
\* sell and a market buy for the same symbol in the same cycle.
C1_AtMostOneOrder ==
  /\ Len(last.orders) <= 1
  /\ ~(Submitted("SELL") /\ Submitted("BUY"))

\* A run that sold while RSI was below the threshold, and did not buy back.
C1_Witness ==
  /\ Executed("SELL")
  /\ last.error = "none"
  /\ last.rsi # NaN
  /\ last.rsi < last.rsi_threshold

\* ---------------------------------------------------------------- C2
\* C2: the purchase record of a symbol is removed in exactly the cycles in
\* which a market sell for it was executed, written in exactly the cycles in
\* which a market buy for it was executed, and unchanged in every other cycle.
C2_RecordFollowsOrders ==
  Ran =>
    /\ Executed("SELL") <=> Did("clear")
    /\ Executed("BUY") <=> Did("write")
    /\ Did("clear") => store[last.symbol] = None
    /\ Did("write") => store[last.symbol] # None
    /\ (~Executed("SELL") /\ ~Executed("BUY")) => store[last.symbol] = last.record_before

\* ---------------------------------------------------------------- C3
\* C3: no Buy is issued in a cycle where balance x price >= 1 (Held), and no
\* Sell is issued in a cycle where balance x price < 1 (Flat).
C3_BuyOnlyFlatSellOnlyHeld ==
  /\ Submitted("BUY") => ValueHeld < Dust
  /\ Submitted("SELL") => ValueHeld >= Dust

\* A buy issued for a symbol with a nonzero balance below the dust threshold,
\* whose purchase record was present.
C3_Witness ==
  /\ Submitted("BUY")
  /\ last.balance > 0
  /\ last.purchase_price # None

\* ---------------------------------------------------------------- C4
\* C4: an error while processing one symbol never aborts the cycle: the
\* symbols are processed in configured order up to the current position, the
\* sleep is entered only after all of them, and the loop can always go on.
C4_ErrorNeverAbortsCycle ==
  /\ pc \in {"for", "sleep"}
  /\ Len(processed) = idx - 1
  /\ \A k \in DOMAIN processed : processed[k].symbol = symbols[k].symbol
  /\ pc = "sleep" => Len(processed) = Len(symbols)
  /\ (pc = "for" /\ idx <= Len(symbols)) => ENABLED ProcessSymbol
  /\ (pc = "for" /\ idx > Len(symbols)) => ENABLED EndCycle
  /\ pc = "sleep" => ENABLED Wake

\* The first symbol's run raised a store error, every symbol was still
\* processed and the loop reached the sleep.
C4_Witness ==
  /\ pc = "sleep"
  /\ Len(processed) = Len(symbols)
  /\ processed[1].error
  /\ last.symbol = symbols[Len(symbols)].symbol
  /\ last.error = "write"

\* ---------------------------------------------------------------- C5
\* C5: if a data fetch or the signal computation fails in a cycle, no sell and
\* no buy was submitted for the symbol in that cycle and its purchase record
\* is unchanged.
C5_DataFailureMeansNoAction ==
  (Ran /\ last.error \in {"balance", "price", "klines", "signal", "buyprice"}) =>
    /\ last.orders = <<>>
    /\ last.ops = <<>>
    /\ store[last.symbol] = last.record_before

\* ---------------------------------------------------------------- C6
\* C6: when the exchange rejects the order, the purchase record is left as it
\* was before the cycle: a rejected sell does not clear it, a rejected buy
\* does not write one.
C6_RejectedOrderLeavesRecord ==
  (Ran /\ last.error \in {"sell", "buy"}) =>
    /\ store[last.symbol] = last.record_before
    /\ last.ops = <<>>

\* A rejected sell of a tracked position.
C6_Witness ==
  /\ last.error = "sell"
  /\ Submitted("SELL")
  /\ ~Executed("SELL")
  /\ last.record_before # None

\* ---------------------------------------------------------------- C7
\* C7: in every cycle in which the balance is worth more than the dust
\* threshold and the purchase record is absent, no order is issued and the
\* record stays absent (so this repeats in every later such cycle).
C7_UntrackedHeldNoOrders ==
  (ReadAll /\ ValueHeld > Dust /\ last.purchase_price = None) =>
    /\ last.orders = <<>>
    /\ last.ops = <<>>
    /\ store[last.symbol] = None

\* An untracked holding, a profit target that a zero profit would meet, and an
\* RSI below the threshold: the run completes without an order.
C7_Witness ==
  /\ ReadAll
  /\ ValueHeld > Dust
  /\ last.purchase_price = None
  /\ PROFIT_TARGET <= 0
  /\ last.error = "none"
  /\ last.rsi # NaN
  /\ last.rsi < last.rsi_threshold

\* ---------------------------------------------------------------- C8
\* C8: whenever balance x price >= 1 (the value exactly 1 included), the
\* purchase record is present and (current - purchase)/purchase x 100 >=
\* profit_target, the cycle issues a Sell.
C8_HeldAtTargetIsSold ==
  ( /\ ReadAll
    /\ ValueHeld >= Dust
    /\ last.purchase_price # None
    /\ last.purchase_price > 0
    /\ (last.current_price - last.purchase_price) * 100 >= PROFIT_TARGET * last.purchase_price )
  => Submitted("SELL")

\* ---------------------------------------------------------------- C9
\* C9: with profit_target >= 0 and a positive recorded purchase price, every
\* submitted sell has current_price >= purchase_price x (1 + profit_target/100),
\* and so is never below the recorded purchase price.
C9_SellsOnlyAtProfit ==
  (Submitted("SELL") /\ PROFIT_TARGET >= 0 /\ last.purchase_price > 0) =>
    /\ last.current_price * 100 >= last.purchase_price * (100 + PROFIT_TARGET)
    /\ last.current_price >= last.purchase_price

\* A sell at a price strictly above a positive target price.
C9_Witness ==
  /\ Executed("SELL")
  /\ PROFIT_TARGET > 0
  /\ last.purchase_price > 0
  /\ last.current_price * 100 > last.purchase_price * (100 + PROFIT_TARGET)

\* --------------------------------------------------------------- C10
\* C10: given that all fetches of the run succeed, a Buy is issued if and only
\* if rsi < rsi_threshold (the dynamic threshold of the cycle) and balance x
\* price < 1, whatever the purchase record.
C10_BuyIffSignalAndFlat ==
  (Ran /\ last.rsi # None /\ last.error # "buyprice") =>
    /\ last.rsi_threshold \in {24, 27, 30}
    /\ Submitted("BUY") <=>
         (last.rsi # NaN /\ last.rsi < last.rsi_threshold /\ ValueHeld < Dust)

\* A Buy at the aggressive threshold for a flat symbol without a record.
C10_Witness ==
  /\ Executed("BUY")
  /\ last.rsi_threshold = 24
  /\ last.record_before = None
  /\ last.error = "none"

\* --------------------------------------------------------------- C11
\* The run computed its signals from a history too short for RSI or for the
\* Bollinger bands.
ShortHistory == last.rsi = NaN \/ last.bands = <<NaN, NaN>>

\* C11: a cycle whose price history is too short for the indicators (RSI or
\* Bollinger bands undefined) never issues a Buy, and still sells a Held
\* symbol whose profit is above the target.
C11_ShortHistoryNeverBuys ==
  ShortHistory =>
    /\ ~Submitted("BUY")
    /\ ( /\ ValueHeld > Dust
         /\ last.purchase_price > 0
         /\ (last.current_price - last.purchase_price) * 100 > PROFIT_TARGET * last.purchase_price )
       => Submitted("SELL")

C13_TrailingStopRule ==
  probe.fn = "should_sell_with_trailing_stop" =>
    LET purchase_price == probe.args[1]
        current_price == probe.args[2]
        profit_target == probe.args[3]
        trailing_stop == probe.args[4]
        target == target_price(purchase_price, profit_target, probe.args[5])
        trailing == trailing_price(current_price, trailing_stop, probe.args[5])
        at_target ==
          \/ current_price * target.den > target.num
          \/ current_price * target.den = target.num /\ target.err <= 0
        above_purchase ==
          \/ trailing.num > purchase_price * trailing.den
          \/ trailing.num = purchase_price * trailing.den /\ trailing.err > 0
    IN  /\ probe.result <=> (at_target /\ above_purchase)
        /\ current_price * 100 < purchase_price * (100 + profit_target) => ~probe.result

\* The worked example: purchase 100, current 102, target 2, trailing stop 1.
C13_Witness ==
  /\ probe.fn = "should_sell_with_trailing_stop"
  /\ probe.args = <<100, 102, 2, 1, Exact>>
  /\ probe.result

\* --------------------------------------------------------------- C14
\* C14: a read of a symbol just after a write of price P for it returns
\* exactly P, whatever was recorded before; a read just after a clear returns
\* None; a read of an absent record returns None; clearing an absent record
\* changes nothing.
C14_StoreRoundTrip ==
  /\ ( /\ probe.fn = "read_purchase_price"
       /\ probe.after[1] = "write_purchase_price"
       /\ probe.after[2][1] = probe.args[1] )
     => probe.result = probe.after[2][2]
  /\ ( /\ probe.fn = "read_purchase_price"
       /\ probe.after[1] = "clear_purchase_price"
       /\ probe.after[2][1] = probe.args[1] )
     => probe.result = None
  /\ (probe.fn = "read_purchase_price" /\ probe.before[probe.args[1]] = None)
     => probe.result = None
  /\ (probe.fn = "clear_purchase_price" /\ probe.before[probe.args[1]] = None)
     => store = probe.before

\* --------------------------------------------------------------- C15
\* C15: two evaluations of process_symbol on the same snapshot (balance,
\* current price, price history) and the same purchase record decide on the
\* same Action: same kind, same symbol, same quantity.
C15_SameSnapshotSameAction ==
  probe.fn = "process_symbol" => probe.result[1] = probe.result[2]

\* --------------------------------------------------------------- C16
\* C16: in every cycle the configured symbols are processed one after another
\* in configured order, each exactly once; the sleep is entered only after the
\* last symbol, nothing is processed during the sleep, and the next cycle
\* starts from the first symbol only when the sleep is over.
C16_SequentialCycle ==
  [][ /\ processed' # processed =>
           \/ /\ pc = "for" /\ pc' = "for"
              /\ idx <= Len(symbols) /\ idx' = idx + 1
              /\ Len(processed) = idx - 1
              /\ Len(processed') = idx
              /\ \A k \in DOMAIN processed : processed'[k] = processed[k]
              /\ processed'[idx].symbol = symbols[idx].symbol
           \/ /\ pc = "sleep" /\ pc' = "for"
              /\ idx' = 1
              /\ processed' = <<>>
      /\ (pc # "sleep" /\ pc' = "sleep") =>
           /\ processed' = processed
           /\ Len(processed) = Len(symbols)
           /\ \A k \in DOMAIN symbols : processed[k].symbol = symbols[k].symbol
      /\ (pc = "sleep" /\ pc' # "sleep") =>
           /\ pc' = "for"
           /\ idx' = 1
           /\ processed' = <<>>
      /\ idx' # idx => processed' # processed
    ]_vars

\* The loop sleeps after a cycle in which every symbol ran without an error.
C16_Witness ==
  /\ pc = "sleep"
  /\ Len(processed) = Len(symbols)
  /\ \A k \in DOMAIN symbols : processed[k].symbol = symbols[k].symbol /\ ~processed[k].error

\* --------------------------------------------------------------- C17
\* The orders of the last run issued through the 'Trailing stop triggered' branch.
TrailingOrders == {i \in DOMAIN last.orders : last.orders[i].why = "trailing"}

\* C17: the trailing-stop branch is unreachable: whenever
\* should_sell_with_trailing_stop is true the take-profit condition is true as
\* well and is checked first, so no run sells through that branch.
C17_TrailingBranchUnreachable == TrailingOrders = {}

\* C17, amended: a run sells through the trailing-stop branch only at a
\* current price equal to the target price purchase_price x (1 + PROFIT_TARGET/100),
\* where the rounding of the computed profit decides the take-profit test.
C17_TrailingOnlyAtTarget ==
  TrailingOrders # {} =>
    last.current_price * 100 = last.purchase_price * (100 + PROFIT_TARGET)

\* A position sold through the trailing-stop branch.
C17_Witness ==
  /\ TrailingOrders # {}
  /\ Executed("SELL")
  /\ Did("clear")

\* --------------------------------------------------------------- C18
\* C18: on an account that starts empty and untracked and that only the
\* program's own filled orders change, whenever a run starts the purchase
\* record is present if and only if the symbol is Held (balance x current
\* price above the dust threshold).
C18_RecordIffHeld ==
  ReadAll => (last.record_before # None <=> ValueHeld > Dust)

\* --------------------------------------------------------------- C19
\* C19: every submitted sell is for the full balance read at the start of the
\* run, and after an executed sell the record is absent and nothing is left
\* of the position, so the next cycle finds the symbol flat and untracked.
C19_SellIsWholePosition ==
  /\ \A i \in DOMAIN last.orders :
       last.orders[i].side = "SELL" => last.orders[i].quantity = [num |-> last.balance, den |-> 1]
  /\ Executed("SELL") =>
       /\ store[last.symbol] = None
       /\ acct[last.symbol] = 0

====
